---- MODULE Spec2Model ----
(***************************************************************************)
(* Model of the AVE dominaplus protocol client                              *)
(* (custom_components/ave_dominaplus): frame codec, command dispatcher,     *)
(* device tables and the connect/receive loop of AveWebServer.              *)
(*                                                                          *)
(* Conventions.  A Python str is a sequence of code points.  None is the    *)
(* empty tuple <<>> and a present value v is <<v>>.  A handler that can     *)
(* raise is an operator returning [s |-> server record, exc |-> BOOLEAN];   *)
(* the server record s carries the fields a dispatch can change.            *)
(***************************************************************************)
EXTENDS Integers, Sequences, FiniteSets, TLC

VARIABLES
    settings,        \* AveWebServerSettings (immutable after construction)
    renamed,         \* unique ids whose registry name was customized by the user
    ws_conn,         \* self.ws_conn: <<>> (None) or <<socket id>>
    sock_closed,     \* socket id -> ws.closed
    nsock,           \* number of sockets created so far
    connected,       \* self._connected
    started,         \* self.started
    closed,          \* self.closed
    pc,              \* task -> position of a start() invocation
    rsock,           \* socket the receive loop of start() iterates over
    dpc,             \* position of the disconnect() invocation
    binary_sensors,  \* self.binary_sensors: unique id -> MotionBinarySensor
    switches,        \* self.switches: unique id -> LightSwitch
    sent,            \* frames handed to ws.send_str: <<socket id, data>>
    adds,            \* calls of async_add_bs_entities / async_add_sw_entities
    writes,          \* calls of async_write_ha_state: unique ids
    now,             \* utcnow()
    slots,           \* registered callbacks: update_* and async_add_*_entities
    counts,          \* history: inbound buffers handled, switch commands issued,
                     \* registration calls made
    hist,            \* history of loop events (connect attempts, sleeps, on-connect runs)
    last,            \* history of the last on_message call
    inflight,        \* task -> the message its receive loop has read and not yet handled
    cmds             \* history of the turn_on / turn_off / toggle calls

vars == <<settings, renamed, ws_conn, sock_closed, nsock, connected, started,
          closed, pc, rsock, dpc, binary_sensors, switches, sent, adds,
          writes, now, slots, counts, hist, last, inflight, cmds>>

---------------------------------------------------------------------------
(* Bounds *)

MaxSockets == 2      \* connections the hub accepts in one run
MaxAttempts == 3     \* connect attempts of the loop in one run
MaxMsgs == 2         \* inbound buffers given to on_message directly in one run
MaxLoopMsgs == 2     \* inbound buffers the receive loop handles in one run
MaxTime == 1         \* clock ticks
MaxCmds == 1         \* turn_on / turn_off / toggle calls in one run
MaxStarts == 2       \* invocations of start() in one run
MaxEvents == 7       \* loop events in one run with switch commands
MaxRegs == 1         \* set_async_add_*_entities calls besides those of the setup

---------------------------------------------------------------------------
(* Python values *)

None == <<>>
Some(v) == <<v>>

\* Control bytes of the wire protocol
STX == 2
ETX == 3
EOT == 4
GS == 29
RS == 30

\* Command names and parameters as code points
sLDI == <<76, 68, 73>>
sGSF == <<71, 83, 70>>
sWSF == <<87, 83, 70>>
sSU3 == <<83, 85, 51>>
sEBI == <<69, 66, 73>>
sPONG_lowercase == <<112, 111, 110, 103>>   \* mutant: the answer is "pong"
sPONG == <<80, 79, 78, 71>>
s_pong == <<112, 111, 110, 103>>
s_ack == <<97, 99, 107>>
s_ping == <<112, 105, 110, 103>>
s_gsf == <<103, 115, 102>>
s_upd == <<117, 112, 100>>
s_ldi == <<108, 100, 105>>
s_cld == <<99, 108, 100>>
s_net == <<110, 101, 116>>
s_nack == <<110, 97, 99, 107>>
sWS_as_WT == <<87, 84>>   \* mutant: the WS branch is taken for "WT"
sWS == <<87, 83>>
sX == <<88>>
sA == <<65>>
sS == <<83>>
sU == <<85>>
sWT == <<87, 84>>
sTT == <<84, 84>>
sTP == <<84, 80>>
sTR == <<84, 82>>
sTLO == <<84, 76, 79>>
sD == <<68>>
sGUI == <<71, 85, 73>>
n0 == <<48>>
n1 == <<49>>
n7 == <<55>>
n10 == <<49, 48>>
n11 == <<49, 49>>
n12 == <<49, 50>>

\* Iterating a str yields its characters, each a str of length 1
Chars(s) == [i \in 1..Len(s) |-> <<s[i]>>]

\* sep.join(parts)
RECURSIVE Join(_, _)
Join(sep, parts) ==
    IF Len(parts) = 0 THEN <<>>
    ELSE IF Len(parts) = 1 THEN parts[1]
    ELSE parts[1] \o <<sep>> \o Join(sep, Tail(parts))

\* s.split(sep) for a one-character separator: never empty, "" gives [""]
RECURSIVE SplitFrom(_, _, _)
SplitFrom(s, sep, cur) ==
    IF Len(s) = 0 THEN <<cur>>
    ELSE IF Head(s) = sep THEN <<cur>> \o SplitFrom(Tail(s), sep, <<>>)
    ELSE SplitFrom(Tail(s), sep, Append(cur, Head(s)))

Split(s, sep) == SplitFrom(s, sep, <<>>)

\* int(s): an optional sign and at least one decimal digit, else ValueError
IsDigit(c) == c >= 48 /\ c <= 57
Unsigned(s) == IF Len(s) > 0 /\ s[1] \in {43, 45} THEN Tail(s) ELSE s
CanInt(s) == Len(Unsigned(s)) > 0 /\ \A i \in 1..Len(Unsigned(s)) : IsDigit(Unsigned(s)[i])

RECURSIVE DigitsVal(_)
DigitsVal(d) == IF Len(d) = 0 THEN 0
                ELSE 10 * DigitsVal(SubSeq(d, 1, Len(d) - 1)) + (d[Len(d)] - 48)

IntOf(s) == IF Len(s) > 0 /\ s[1] = 45 THEN 0 - DigitsVal(Unsigned(s)) ELSE DigitsVal(Unsigned(s))

\* str(n) for an int
RECURSIVE NatStr(_)
NatStr(n) == IF n < 10 THEN <<48 + n>> ELSE NatStr(n \div 10) \o <<48 + (n % 10)>>

Str(n) == IF n < 0 THEN <<45>> \o NatStr(0 - n) ELSE NatStr(n)

---------------------------------------------------------------------------
(* Frame codec: checksum and outbound frame *)

\* a ^ b on naturals
RECURSIVE Xor(_, _)
Xor(a, b) == IF a = 0 THEN b
             ELSE IF b = 0 THEN a
             ELSE 2 * Xor(a \div 2, b \div 2) + (((a % 2) + (b % 2)) % 2)

\* hex(value)[2:].upper(): hex() of a negative value is "-0x..." and the
\* slice leaves "x...", which upper() turns into "X..."
RECURSIVE value_to_hex(_)
value_to_hex(value) ==
    LET digit(v) == IF v < 10 THEN 48 + v ELSE 55 + v
    IN  IF value < 0 THEN <<88>> \o value_to_hex(0 - value)
        ELSE IF value < 16 THEN <<digit(value)>>
        ELSE value_to_hex(value \div 16) \o <<digit(value % 16)>>

\* crc = crc ^ ord(char) over the first n characters; the running value and
\* the character are bound once per step
RECURSIVE XorUpTo(_, _)
XorUpTo(rawstring, n) ==
    IF n = 0 THEN 0
    ELSE CHOOSE crc \in {Xor(acc, char) : acc \in {XorUpTo(rawstring, n - 1)},
                                          char \in {rawstring[n]}} : TRUE

\* for char in rawstring: crc = crc ^ ord(char)
XorAll(rawstring) ==
    CHOOSE crc \in {XorUpTo(str, Len(str)) : str \in {rawstring}} : TRUE

\* Mutant: the checksum is the hex text of the whole byte
build_crc_bytewise(rawstring) == value_to_hex(255 - XorAll(rawstring))

\* crc = 0xFF - xor; msb = hex(crc >> 4), lsb = hex(crc & 0xF); >> rounds
\* towards minus infinity and & 0xF is never negative, as \div and % do
build_crc(rawstring) ==
    LET crc == 255 - XorAll(rawstring)
    IN  value_to_hex(crc \div 16) \o value_to_hex(crc % 16)

\* The text send_ws_command hands to send_str.  `parameters` is None or an
\* iterable of str; a falsy iterable (None, "", []) adds nothing.
full_message(command, parameters) ==
    LET message == <<STX>> \o command
                   \o (IF Len(parameters) > 0 THEN <<GS>> \o Join(GS, parameters) ELSE <<>>)
                   \o <<ETX>>
    IN  message \o build_crc(message) \o <<EOT>>

---------------------------------------------------------------------------
(* The server record and the outcome of a handler *)

\* The fields of AveWebServer (and of the platform) a dispatch can change.
\* disp is a history field: the frames manage_commands was invoked with.
Server == [binary_sensors |-> binary_sensors, switches |-> switches, sent |-> sent,
           adds |-> adds, writes |-> writes, disp |-> <<>>]

Ok(s) == [s |-> s, exc |-> FALSE]
Raise(s) == [s |-> s, exc |-> TRUE]

\* Mutant: the closed flag of the socket is not consulted
IsOpen_unclosed(conn, closedmap) == conn # None

\* conn and not conn.closed, for a value conn of self.ws_conn
IsOpen(conn, closedmap) == conn # None /\ ~closedmap[conn[1]]

SocketOpen == IsOpen(ws_conn, sock_closed)

\* send_ws_command with self.ws_conn = conn: the frame goes to send_str when
\* the socket is open, otherwise an error is logged and nothing is sent.
send_on(s, conn, command, parameters) ==
    IF IsOpen(conn, sock_closed)
    THEN [s EXCEPT !.sent = Append(@, <<conn[1], full_message(command, parameters)>>)]
    ELSE s

send_ws_command(s, command, parameters) == send_on(s, ws_conn, command, parameters)

\* Entity.async_write_ha_state(): the state-change notification of an entity
async_write_ha_state(s, uid) == [s EXCEPT !.writes = Append(@, uid)]

\* Mutant: the table is not consulted
already_exists_never(unique_id, table) == FALSE

\* Mutant: the assignment replaces the table
dict_set_alone(table, key, value) == [u \in {key} |-> value]

\* unique_id in table
already_exists(unique_id, table) == unique_id \in DOMAIN table

\* table[key] = value on a dict
dict_set(table, key, value) ==
    [u \in DOMAIN table \cup {key} |-> IF u = key THEN value ELSE table[u]]

\* A name built by build_name (BRAND_PREFIX suffix id) or a name given by the hub
BuiltName(kind, family, id) == [kind |-> kind, family |-> family, id |-> id, text |-> <<>>]
HubName(text) == [kind |-> "hub", family |-> 0, id |-> 0, text |-> text]

---------------------------------------------------------------------------
(* binary_sensor.py *)

\* f"ave_motion_{family}_{device_id}"
s_ave_motion == <<97, 118, 101, 95, 109, 111, 116, 105, 111, 110, 95>>

bs_set_sensor_uid(family, device_id) ==
    s_ave_motion \o Str(family) \o <<95>> \o Str(device_id)

\* Mutant: the settings are not consulted
bs_gated_any_setting(family) == family \notin {12, 1007}

\* Mutant: family 7 is handled like family 12
bs_gated_family7(family) ==
    IF family \in {7, 12} THEN ~settings.fetch_sensor_areas
    ELSE IF family = 1007 THEN ~settings.fetch_sensors
    ELSE TRUE

\* The early returns of update_binary_sensor: the family is not handled, or
\* its setting is off
bs_gated(family) ==
    IF family = 12 THEN ~settings.fetch_sensor_areas
    ELSE IF family = 1007 THEN ~settings.fetch_sensors
    ELSE TRUE

\* check_name_changed: the registry entry of unique_id has a user-chosen name
bs_check_name_changed(unique_id) == unique_id \in renamed

bs_build_name(family, ave_device_id) == BuiltName("motion", family, ave_device_id)

MotionBinarySensor(family, ave_device_id, is_motion_detected) ==
    [_is_motion_detected |-> is_motion_detected,
     ave_device_id |-> ave_device_id,
     family |-> family,
     _last_revealed |-> None,
     _last_cleared |-> None,
     _ave_name |-> None,
     _name |-> bs_build_name(family, ave_device_id)]

\* The timestamp update_state stores: utcnow().isoformat()
Stamp == Some(now)

bs_update_state_fields(e, is_motion_detected) ==
    LET e1 == IF is_motion_detected > 0
              THEN [e EXCEPT !._last_revealed = Stamp]
              ELSE IF e._is_motion_detected # None /\ e._is_motion_detected[1] # 0
              THEN [e EXCEPT !._last_cleared = Stamp]
              ELSE e
    IN  [e1 EXCEPT !._is_motion_detected = Some(is_motion_detected)]

\* MotionBinarySensor.update_state on the entry uid of the table
bs_update_state(s, uid, is_motion_detected) ==
    async_write_ha_state(
        [s EXCEPT !.binary_sensors[uid] = bs_update_state_fields(@, is_motion_detected)],
        uid)

\* The is_on property: None (unknown) or whether motion is detected
bs_is_on(e) ==
    IF e._is_motion_detected = None THEN None
    ELSE Some(e._is_motion_detected[1] > 0)

bs_set_name(e, name) == [e EXCEPT !._name = name]

bs_set_ave_name(s, uid, name) ==
    async_write_ha_state([s EXCEPT !.binary_sensors[uid]._ave_name = Some(name)], uid)

\* update_binary_sensor(server, family, ave_device_id, device_status, name);
\* name is None or Some(text), a Python bool counts as the int 0 or 1
update_binary_sensor(s, family, ave_device_id, device_status, name) ==
    LET unique_id == bs_set_sensor_uid(family, ave_device_id)
        named == name # None /\ settings.get_entity_names
    IN
    IF bs_gated(family) THEN Ok(s)
    ELSE IF already_exists(unique_id, s.binary_sensors)
    THEN LET s1 == IF device_status >= 0
                   THEN bs_update_state(s, unique_id, device_status)
                   ELSE s
             s2 == IF named THEN bs_set_ave_name(s1, unique_id, HubName(name[1])) ELSE s1
             s3 == IF named /\ ~bs_check_name_changed(unique_id)
                   THEN [s2 EXCEPT !.binary_sensors[unique_id] = bs_set_name(@, HubName(name[1]))]
                   ELSE s2
         IN  Ok(s3)
    ELSE LET sensor == MotionBinarySensor(family, ave_device_id,
                                          Some(IF device_status > 0 THEN 1 ELSE 0))
             \* the new sensor is filled in before it enters the table; a write
             \* of set_ave_name is logged under its unique id
             sensor1 == IF family = 1007
                        THEN IF ~bs_check_name_changed(unique_id)
                             THEN bs_set_name(sensor, bs_build_name(family, ave_device_id))
                             ELSE sensor
                        ELSE IF named /\ ~bs_check_name_changed(unique_id)
                             THEN bs_set_name([sensor EXCEPT !._ave_name = Some(HubName(name[1]))],
                                              HubName(name[1]))
                             ELSE sensor
             s1 == IF family # 1007 /\ named /\ ~bs_check_name_changed(unique_id)
                   THEN async_write_ha_state(s, unique_id)
                   ELSE s
             s2 == [s1 EXCEPT !.binary_sensors = dict_set(@, unique_id, sensor1)]
         IN  IF slots.add_bs = None THEN Raise(s2)
             ELSE Ok([s2 EXCEPT !.adds = Append(@, <<slots.add_bs[1], unique_id>>)])

---------------------------------------------------------------------------
(* switch.py *)

\* f"ave_switch_{family}_{ave_device_id}"
s_ave_switch == <<97, 118, 101, 95, 115, 119, 105, 116, 99, 104, 95>>

sw_set_sensor_uid(family, ave_device_id) ==
    s_ave_switch \o Str(family) \o <<95>> \o Str(ave_device_id)

\* The early returns of update_switch
sw_gated(family) ==
    IF family = 1 THEN ~settings.fetch_lights
    ELSE TRUE

sw_check_name_changed(unique_id) == unique_id \in renamed

sw_build_name(family, ave_device_id) == BuiltName("switch", family, ave_device_id)

\* LightSwitch.__init__: _attr_is_on keeps the class default None unless is_on >= 0
LightSwitch(family, ave_device_id, is_on, name, ave_name) ==
    [_is_on |-> is_on,
     _attr_is_on |-> IF is_on # None /\ is_on[1] >= 0 THEN Some(is_on[1] # 0) ELSE None,
     ave_device_id |-> ave_device_id,
     family |-> family,
     _ave_name |-> ave_name,
     _name |-> IF name = None THEN sw_build_name(family, ave_device_id) ELSE name[1]]

\* LightSwitch.update_state on the entry uid of the table
sw_update_state(s, uid, is_on) ==
    IF is_on < 0 THEN s
    ELSE async_write_ha_state([s EXCEPT !.switches[uid]._attr_is_on = Some(is_on # 0)], uid)

sw_set_name(s, uid, name) ==
    async_write_ha_state([s EXCEPT !.switches[uid]._name = name], uid)

sw_set_ave_name(s, uid, name) ==
    async_write_ha_state([s EXCEPT !.switches[uid]._ave_name = Some(name)], uid)

\* update_switch(server, family, ave_device_id, device_status, name)
update_switch(s, family, ave_device_id, device_status, name) ==
    LET unique_id == sw_set_sensor_uid(family, ave_device_id)
        named == name # None /\ settings.get_entity_names
    IN
    IF sw_gated(family) THEN Ok(s)
    ELSE IF already_exists(unique_id, s.switches)
    THEN LET s1 == IF device_status >= 0
                   THEN sw_update_state(s, unique_id, device_status)
                   ELSE s
             s2 == IF named THEN sw_set_ave_name(s1, unique_id, HubName(name[1])) ELSE s1
             s3 == IF named /\ ~sw_check_name_changed(unique_id)
                   THEN sw_set_name(s2, unique_id, HubName(name[1]))
                   ELSE s2
         IN  Ok(s3)
    ELSE LET entity_name == IF named THEN Some(HubName(name[1])) ELSE None
             switch == LightSwitch(family, ave_device_id, Some(device_status),
                                   entity_name, entity_name)
             s1 == [s EXCEPT !.switches = dict_set(@, unique_id, switch)]
         IN  IF slots.add_sw = None THEN Raise(s1)
             ELSE Ok([s1 EXCEPT !.adds = Append(@, <<slots.add_sw[1], unique_id>>)])

---------------------------------------------------------------------------
(* web_server.py: command dispatcher *)

\* seq[k] with Python's 0-based index; Has is the condition under which the
\* subscript does not raise IndexError
Has(seq, k) == Len(seq) > k
At(seq, k) == seq[k + 1]

\* int(seq[k]) does not raise
HasInt(seq, k) == Has(seq, k) /\ CanInt(At(seq, k))
IntAt(seq, k) == IntOf(At(seq, k))

\* self.update_switch(self, ...) and self.update_binary_sensor(self, ...):
\* calling an unset slot (None) raises TypeError
call_update_switch(s, family, ave_device_id, device_status, name) ==
    IF slots.upd_sw = None THEN Raise(s)
    ELSE update_switch(s, family, ave_device_id, device_status, name)

call_update_binary_sensor(s, family, ave_device_id, device_status, name) ==
    IF slots.upd_bs = None THEN Raise(s)
    ELSE update_binary_sensor(s, family, ave_device_id, device_status, name)

\* Mutant: the id 200000 is ignored as well
ws_reserved_from_200000(device_id) == device_id >= 200000

\* if device_id > 200000: pass
ws_reserved(device_id) == device_id > 200000

\* Mutant: the clear flag is read the other way round
area_status_inverted(area_clear) == IF area_clear > 0 THEN 1 ELSE 0

\* status = 1; if area_clear > 0: status = 0
area_status(area_clear) == IF area_clear > 0 THEN 0 ELSE 1

manage_upd(s, parameters, records) ==
    IF ~Has(parameters, 0) THEN Raise(s)
    ELSE IF At(parameters, 0) = sWS
    THEN IF ~(HasInt(parameters, 1) /\ HasInt(parameters, 2) /\ HasInt(parameters, 3))
         THEN Raise(s)
         ELSE LET device_type == IntAt(parameters, 1)
                  device_id == IntAt(parameters, 2)
                  device_status == IntAt(parameters, 3)
              IN  IF ws_reserved(device_id) THEN Ok(s)
                  ELSE IF device_type = 1 /\ settings.fetch_lights
                  THEN call_update_switch(s, device_type, device_id, device_status, None)
                  ELSE Ok(s)
    ELSE IF At(parameters, 0) = sX /\ ~Has(parameters, 1) THEN Raise(s)
    ELSE IF At(parameters, 0) = sX /\ At(parameters, 1) = sA
    THEN IF ~settings.fetch_sensor_areas THEN Ok(s)
         ELSE IF ~(HasInt(parameters, 2) /\ HasInt(parameters, 6)) THEN Raise(s)
         ELSE LET area_progressive == IntAt(parameters, 2)
                  area_clear == IntAt(parameters, 6)
                  status == area_status(area_clear)
              IN  call_update_binary_sensor(s, 12, area_progressive, status, None)
    ELSE IF At(parameters, 0) = sX /\ At(parameters, 1) = sS
    THEN IF ~settings.fetch_sensors THEN Ok(s)
         ELSE IF ~(HasInt(parameters, 2) /\ HasInt(parameters, 4)) THEN Raise(s)
         ELSE call_update_binary_sensor(s, 1007, IntAt(parameters, 2),
                                        IntAt(parameters, 4), None)
    ELSE IF At(parameters, 0) = sX /\ At(parameters, 1) = sU
    THEN IF ~Has(parameters, 2) THEN Raise(s) ELSE Ok(s)
    ELSE IF At(parameters, 0) = sWT
    THEN IF ~Has(parameters, 1) THEN Raise(s) ELSE Ok(s)
    ELSE IF At(parameters, 0) \in {sTT, sTP, sTR} THEN Ok(s)
    ELSE IF At(parameters, 0) \in {sTLO, sD} THEN Ok(s)
    ELSE IF At(parameters, 0) = sGUI THEN Ok(s)
    ELSE Ok(s)  \* "Not yet handled UPD": a warning is logged

\* for record in records: update_binary_sensor(int(parameters[0]), ...)
RECURSIVE gsf_binary_sensors(_, _, _)
gsf_binary_sensors(s, family, records) ==
    IF Len(records) = 0 THEN Ok(s)
    ELSE LET record == Head(records)
         IN  IF ~(HasInt(record, 0) /\ HasInt(record, 1)) THEN Raise(s)
             ELSE LET r == call_update_binary_sensor(s, family, IntAt(record, 0),
                                                     IntAt(record, 1), None)
                  IN  IF r.exc THEN r ELSE gsf_binary_sensors(r.s, family, Tail(records))

\* for record in records: update_switch(1, ...)
RECURSIVE gsf_switches(_, _)
gsf_switches(s, records) ==
    IF Len(records) = 0 THEN Ok(s)
    ELSE LET record == Head(records)
         IN  IF ~(HasInt(record, 0) /\ HasInt(record, 1)) THEN Raise(s)
             ELSE LET r == call_update_switch(s, 1, IntAt(record, 0), IntAt(record, 1), None)
                  IN  IF r.exc THEN r ELSE gsf_switches(r.s, Tail(records))

manage_gsf(s, parameters, records) ==
    IF ~Has(parameters, 0) THEN Raise(s)
    ELSE LET r == IF At(parameters, 0) \in {n7, n12}
                  THEN gsf_binary_sensors(s, IntAt(parameters, 0), records)
                  ELSE Ok(s)
         IN  IF r.exc THEN r
             ELSE IF At(parameters, 0) = n1 THEN gsf_switches(r.s, records)
             ELSE r

RECURSIVE manage_ldi_records(_, _)
manage_ldi_records(s, records) ==
    IF Len(records) = 0 THEN Ok(s)
    ELSE LET record == Head(records)
         IN  IF ~(HasInt(record, 0) /\ Has(record, 1) /\ HasInt(record, 2)) THEN Raise(s)
             ELSE LET device_id == IntAt(record, 0)
                      device_name == At(record, 1)
                      device_type == IntAt(record, 2)
                      r == IF device_type = 12
                           THEN call_update_binary_sensor(s, 12, device_id, -1,
                                                          Some(device_name))
                           ELSE IF device_type = 1
                           THEN call_update_switch(s, 1, device_id, -1, Some(device_name))
                           ELSE Ok(s)
                  IN  IF r.exc THEN r ELSE manage_ldi_records(r.s, Tail(records))

manage_ldi(s, parameters, records) == manage_ldi_records(s, records)

\* manage_commands; the frame is noted in the history field disp on entry
manage_commands(s0, command, parameters, records) ==
    LET s == [s0 EXCEPT !.disp = Append(@, [command |-> command,
                                             parameters |-> parameters,
                                             records |-> records])]
    IN  IF command = s_pong THEN Ok(s)
        ELSE IF command = s_ack
        THEN IF ~Has(parameters, 0) THEN Raise(s) ELSE Ok(s)
        ELSE IF command = s_ping THEN Ok(send_ws_command(s, sPONG, None))
        ELSE IF command = s_gsf THEN manage_gsf(s, parameters, records)
        ELSE IF command = s_upd THEN manage_upd(s, parameters, records)
        ELSE IF command = s_ldi THEN manage_ldi(s, parameters, records)
        ELSE IF command \in {s_cld, s_net} THEN Ok(s)
        ELSE IF command = s_nack THEN Ok(s)  \* guarded: len(parameters) > 0
        ELSE Ok(s)  \* "Received unknown command": a warning is logged

---------------------------------------------------------------------------
(* web_server.py: inbound decode *)

\* Mutant: the ETX and the checksum stay in the payload
Payload_with_checksum(msg) == SubSeq(msg, 2, Len(msg))

\* msg[1:-3] for len(msg) >= 3
Payload(msg) == SubSeq(msg, 2, Len(msg) - 3)

\* One EOT-separated unit as the frame handed to manage_commands
DecodeUnit(msg) ==
    LET str_msg == Payload(msg)
        parts == Split(str_msg, RS)
        header == Split(Head(parts), GS)
    IN  [command |-> Head(header),
         parameters |-> Tail(header),
         records |-> [i \in 1..(Len(parts) - 1) |-> Split(parts[i + 1], GS)]]

\* for msg in messages: the loop body, left at the first exception
RECURSIVE on_message_units(_, _)
on_message_units(s, messages) ==
    IF Len(messages) = 0 THEN Ok(s)
    ELSE LET msg == Head(messages)
         IN  IF Len(msg) < 3 THEN on_message_units(s, Tail(messages))
             ELSE LET f == DecodeUnit(msg)
                      r == manage_commands(s, f.command, f.parameters, f.records)
                  IN  IF r.exc THEN r ELSE on_message_units(r.s, Tail(messages))

\* on_message(message) for a str (or UTF-8 bytes of code points below 128):
\* the try block encloses the whole loop, the except only logs
on_message(s, message) == on_message_units(s, Split(message, EOT))

---------------------------------------------------------------------------
(* Inputs: inbound buffers as the hub sends them *)

\* One inbound unit: STX header [RS record]* ETX and two checksum characters
Unit(command, parameters, records) ==
    <<STX>>
    \o Join(RS, <<Join(GS, <<command>> \o parameters)>>
                \o [i \in 1..Len(records) |-> Join(GS, records[i])])
    \o <<ETX, 48, 48>>

\* Units joined by EOT, the last one terminated by EOT as well
Buffer(units) == Join(EOT, units) \o <<EOT>>

\* Inputs: a device name ("K"), a command no handler knows ("zzz") and the
\* buffers the hub sends
nameK == <<75>>
sZZZ == <<122, 122, 122>>

B_ping == Buffer(<<Unit(s_ping, <<>>, <<>>)>>)
B_ack_ping == Buffer(<<Unit(s_ack, <<>>, <<>>), Unit(s_ping, <<>>, <<>>)>>)
B_upd_empty == Buffer(<<Unit(s_upd, <<>>, <<>>)>>)
B_unknown == Buffer(<<Unit(sZZZ, <<>>, <<>>)>>)
B_ldi_switch == Buffer(<<Unit(s_ldi, <<>>, << <<n7, nameK, n1>> >>)>>)
B_ldi_area == Buffer(<<Unit(s_ldi, <<>>, << <<n7, nameK, n12>> >>)>>)
B_gsf1_on == Buffer(<<Unit(s_gsf, <<n1>>, << <<n7, n1>> >>)>>)
B_gsf1_off == Buffer(<<Unit(s_gsf, <<n1>>, << <<n7, n0>> >>)>>)
B_gsf12_on == Buffer(<<Unit(s_gsf, <<n12>>, << <<n7, n1>> >>)>>)
B_gsf12_off == Buffer(<<Unit(s_gsf, <<n12>>, << <<n7, n0>> >>)>>)
B_upd_ws == Buffer(<<Unit(s_upd, <<sWS, n1, n7, n1>>, <<>>)>>)
B_upd_xa == Buffer(<<Unit(s_upd, <<sX, sA, n7, n0, n0, n0, n0>>, <<>>)>>)
B_upd_xs == Buffer(<<Unit(s_upd, <<sX, sS, n7, n0, n1>>, <<>>)>>)
B_noise == Buffer(<<Unit(s_gsf, <<n1>>, << <<n7, n1>> >>), <<STX, ETX>>,
                    Unit(s_ldi, <<>>, << <<n7, nameK, n1>> >>)>>)

\* upd WS <device_type> <device_id> <device_status>
WsFrame(device_type, device_id, device_status) ==
    Buffer(<<Unit(s_upd, <<sWS, Str(device_type), Str(device_id), Str(device_status)>>,
                  <<>>)>>)

\* (device_type, device_id, device_status) of the upd WS buffers
WsCases == {<<1, 7, 0>>, <<1, 7, 1>>, <<2, 7, 1>>,
            <<1, 200000, 1>>, <<1, 200001, 1>>, <<2, 200001, 1>>}

WsBuffers == {WsFrame(c[1], c[2], c[3]) : c \in WsCases}

\* upd X A with the clear flag set, upd X S with status 0
B_upd_xa_clear == Buffer(<<Unit(s_upd, <<sX, sA, n7, n0, n0, n0, n1>>, <<>>)>>)
B_upd_xs_off == Buffer(<<Unit(s_upd, <<sX, sS, n7, n0, n0>>, <<>>)>>)

AreaBuffers == {B_upd_xa, B_upd_xa_clear, B_upd_xs, B_upd_xs_off}

\* gsf reply for family 7 with the record (7, 1)
B_gsf7_on == Buffer(<<Unit(s_gsf, <<n7>>, << <<n7, n1>> >>)>>)

\* Frames manage_commands, manage_upd and manage_ldi have no action for:
\* "T" is <<84>>, the device types "4", "6", "8", "99" are <<52>>, <<54>>,
\* <<56>>, <<57, 57>>
B_replies == Buffer(<<Unit(s_pong, <<>>, <<>>), Unit(s_ack, <<sEBI>>, <<>>),
                      Unit(s_nack, <<>>, <<>>), Unit(s_nack, <<sEBI>>, <<>>)>>)
B_cloud == Buffer(<<Unit(s_cld, <<n1>>, <<>>), Unit(s_net, <<n1>>, <<>>),
                    Unit(sZZZ, <<n1, n7, n1>>, << <<n7, n1>> >>)>>)
B_upd_xu == Buffer(<<Unit(s_upd, <<sX, sU, n7>>, <<>>)>>)
B_upd_wt == Buffer(<<Unit(s_upd, <<sWT, n1, n7, n1>>, <<>>),
                     Unit(s_upd, <<sWT, <<84>>, n7, n1>>, <<>>)>>)
B_upd_thermo == Buffer(<<Unit(s_upd, <<sTT, n7, n1>>, <<>>),
                         Unit(s_upd, <<sTP, n7, n1>>, <<>>),
                         Unit(s_upd, <<sTR, n7, n1>>, <<>>),
                         Unit(s_upd, <<sTLO, n7, n1>>, <<>>),
                         Unit(s_upd, <<sD, n7, n1>>, <<>>)>>)
B_upd_gui == Buffer(<<Unit(s_upd, <<sGUI>>, <<>>),
                      Unit(s_upd, <<sZZZ, n1, n7, n1>>, <<>>)>>)
B_ldi_others == Buffer(<<Unit(s_ldi, <<>>, <<<<n7, nameK, n11>>, <<n7, nameK, <<52>>>>,
                                              <<n7, nameK, <<54>>>>, <<n7, nameK, <<56>>>>>>)>>)
B_ldi_unknown == Buffer(<<Unit(s_ldi, <<>>, <<<<n7, nameK, <<57, 57>>>>, <<n7, nameK, n0>>>>)>>)

\* The inert buffers with the number of units in each
InertCases == {<<B_replies, 4>>, <<B_cloud, 3>>, <<B_upd_xu, 1>>, <<B_upd_wt, 2>>,
               <<B_upd_thermo, 5>>, <<B_upd_gui, 2>>, <<B_ldi_others, 1>>,
               <<B_ldi_unknown, 1>>}

InertBuffers == {c[1] : c \in InertCases}

\* Buffers delivered to on_message directly
Buffers == {B_ping, B_ack_ping, B_upd_empty, B_unknown, B_ldi_switch, B_ldi_area,
            B_gsf1_on, B_gsf1_off, B_gsf12_on, B_gsf12_off, B_upd_ws, B_upd_xa,
            B_upd_xs, B_noise}

\* Buffers the hub sends while the receive loop of start() runs
LoopBuffers == {B_ping, B_gsf1_on}

\* Unique ids whose registry entry may carry a user-chosen name when the
\* integration starts (switch entries are never adopted into self.switches)
RenamedCandidates == {sw_set_sensor_uid(1, 7)}

\* Device ids of turn_on / turn_off / toggle calls
CmdIds == {7}

---------------------------------------------------------------------------
(* State after construction, and the platform setup *)

Tasks == 1..MaxStarts

\* Position of a start() invocation: a label, and within on_connect_actions
\* the index of the next command to send
At0(label) == [at |-> label, i |-> 0]

\* The settings a config entry can hold
AllSettings == [get_entity_names : BOOLEAN, fetch_sensor_areas : BOOLEAN,
                fetch_sensors : BOOLEAN, fetch_lights : BOOLEAN]

\* The settings the connect/receive loop reads (lights, sensor areas)
LoopSettings == {x \in AllSettings : ~x.get_entity_names /\ ~x.fetch_sensors}

\* AveWebServer.__init__
Constructed ==
    /\ ws_conn = None
    /\ sock_closed = [k \in 1..MaxSockets |-> FALSE]
    /\ nsock = 0
    /\ connected = FALSE
    /\ started = FALSE
    /\ closed = FALSE
    /\ pc = [t \in Tasks |-> At0("idle")]
    /\ rsock = 0
    /\ dpc = "idle"
    /\ binary_sensors = <<>>
    /\ switches = <<>>
    /\ sent = <<>>
    /\ adds = <<>>
    /\ writes = <<>>
    /\ now = 0
    /\ slots = [upd_bs |-> None, add_bs |-> None, upd_sw |-> None, add_sw |-> None]
    /\ counts = [msg |-> 0, cmd |-> 0, reg |-> 0]
    /\ hist = <<>>
    /\ last = [buffer |-> <<>>, disp |-> <<>>, exc |-> FALSE]
    /\ inflight = [t \in Tasks |-> None]
    /\ cmds = <<>>

Init ==
    /\ settings \in AllSettings
    /\ renamed \in SUBSET RenamedCandidates
    /\ Constructed

InitLoop ==
    /\ settings \in LoopSettings
    /\ renamed = {}
    /\ Constructed

\* set_update_binary_sensor / set_update_switch: the slot is overwritten
set_update_binary_sensor(sl, func) == [sl EXCEPT !.upd_bs = Some(func)]

set_update_switch(sl, func) == [sl EXCEPT !.upd_sw = Some(func)]

\* Mutant: the slot is overwritten
set_async_add_bs_entities_always(sl, func) == [sl EXCEPT !.add_bs = Some(func)]

\* set_async_add_bs_entities / set_async_add_sw_entities: only an empty slot
\* is filled
set_async_add_bs_entities(sl, func) ==
    IF sl.add_bs = None THEN [sl EXCEPT !.add_bs = Some(func)] ELSE sl

set_async_add_sw_entities(sl, func) ==
    IF sl.add_sw = None THEN [sl EXCEPT !.add_sw = Some(func)] ELSE sl

SetupDone == slots.upd_bs # None

\* async_setup_entry of __init__.py and of the two platforms: one connect
\* attempt (its failure is only logged), then the callbacks are registered.
Setup ==
    /\ ~SetupDone
    /\ \E ok \in BOOLEAN :
          IF ok /\ nsock < MaxSockets
          THEN /\ ws_conn' = Some(nsock + 1)
               /\ nsock' = nsock + 1
               /\ connected' = TRUE
          ELSE UNCHANGED <<ws_conn, nsock, connected>>
    /\ slots' = set_async_add_sw_entities(
                    set_update_switch(
                        set_async_add_bs_entities(
                            set_update_binary_sensor(slots, "update_binary_sensor"),
                            "async_add_bs"),
                        "update_switch"),
                    "async_add_sw")
    /\ UNCHANGED <<settings, renamed, sock_closed, started, closed, pc, rsock, dpc,
                   binary_sensors, switches, sent, adds, writes, now, counts, hist, last,
                   inflight, cmds>>

\* The server fields after a dispatch
Commit(s) ==
    /\ binary_sensors' = s.binary_sensors
    /\ switches' = s.switches
    /\ sent' = s.sent
    /\ adds' = s.adds
    /\ writes' = s.writes

\* await self.on_message(msg.data)
Handle(message) ==
    LET r == on_message(Server, message)
    IN  /\ Commit(r.s)
        /\ last' = [buffer |-> message, disp |-> r.s.disp, exc |-> r.exc]
        /\ counts' = [counts EXCEPT !.msg = @ + 1]

\* on_message called with one buffer
Deliver(message) ==
    /\ SetupDone
    /\ counts.msg < MaxMsgs
    /\ Handle(message)
    /\ UNCHANGED <<settings, renamed, ws_conn, sock_closed, nsock, connected, started,
                   closed, pc, rsock, dpc, now, slots, hist, inflight, cmds>>

\* Time passes
Tick ==
    /\ now < MaxTime
    /\ now' = now + 1
    /\ UNCHANGED <<settings, renamed, ws_conn, sock_closed, nsock, connected, started,
                   closed, pc, rsock, dpc, binary_sensors, switches, sent, adds,
                   writes, slots, counts, hist, last, inflight, cmds>>

\* Callbacks a caller other than the platform setup may register
OtherCallbacks == {"other_add"}

\* One more call of set_async_add_bs_entities or set_async_add_sw_entities
Register(func) ==
    /\ SetupDone
    /\ counts.reg < MaxRegs
    /\ \/ slots' = set_async_add_bs_entities(slots, func)
       \/ slots' = set_async_add_sw_entities(slots, func)
    /\ counts' = [counts EXCEPT !.reg = @ + 1]
    /\ UNCHANGED <<settings, renamed, ws_conn, sock_closed, nsock, connected, started,
                   closed, pc, rsock, dpc, binary_sensors, switches, sent, adds,
                   writes, now, hist, last, inflight, cmds>>

NextDispatch ==
    \/ Setup
    \/ \E func \in OtherCallbacks : Register(func)
    \/ \E message \in Buffers : Deliver(message)
    \/ Tick

SpecDispatch == Init /\ [][NextDispatch]_vars

\* on_message given the status frames (gsf, upd WS, upd X A, upd X S) and the
\* frames without effect, for every choice of the three fetch settings
InitFrames ==
    /\ settings \in {x \in AllSettings : ~x.get_entity_names}
    /\ renamed = {}
    /\ Constructed

FrameBuffers ==
    {B_gsf1_on, B_gsf12_on, B_gsf7_on} \cup WsBuffers \cup AreaBuffers \cup InertBuffers

NextFrames ==
    \/ Setup
    \/ \E message \in FrameBuffers : Deliver(message)

SpecFrames == InitFrames /\ [][NextFrames]_vars

\* Commands and parameter lists given to send_ws_command, with and without
\* characters above U+00FF
sEuro == <<8364>>
EchoCommands == {sEBI, <<>>, sEuro}
EchoParameters == {<<>>, <<n7, n11>>, << <<>> >>, <<sEuro>>}

\* on_message is given the text send_ws_command builds for the command
Echo(command, parameters) == Deliver(full_message(command, parameters))

NextCodec ==
    \/ Setup
    \/ \E command \in EchoCommands : \E parameters \in EchoParameters :
          Echo(command, parameters)

SpecCodec == Init /\ [][NextCodec]_vars

---------------------------------------------------------------------------
(* web_server.py: start(), the connect/receive loop *)

Ev(ev, sock, task) == [ev |-> ev, sock |-> sock, task |-> task]

Attempts == Cardinality({i \in 1..Len(hist) : hist[i].ev \in {"ok", "fail"}})

\* Mutant: the started flag is not consulted
AlreadyStarted_unchecked == FALSE

\* if self.started: return
AlreadyStarted == started

\* Mutant: only the connected flag is consulted
NeedConnect_flag_only == ~connected

\* not self._connected or self.ws_conn is None or self.ws_conn.closed
NeedConnect == ~connected \/ ws_conn = None \/ sock_closed[ws_conn[1]]

\* The send_ws_command calls of on_connect_actions, in order.  A str given as
\* `parameters` is iterated character by character by join.
on_connect_actions ==
    <<[command |-> sLDI, parameters |-> None]>>
    \o (IF settings.fetch_lights
        THEN <<[command |-> sGSF, parameters |-> Chars(n1)]>>
        ELSE <<>>)
    \o (IF settings.fetch_sensor_areas
        THEN <<[command |-> sGSF, parameters |-> <<n12>>],
               [command |-> sWSF, parameters |-> Chars(n12)]>>
        ELSE <<>>)
    \o <<[command |-> sSU3, parameters |-> None]>>

\* Position after the i-th command of on_connect_actions was sent
AfterCommand(i) ==
    IF i < Len(on_connect_actions) THEN [at |-> "on_connect", i |-> i + 1] ELSE At0("iter")

\* Mutant: a failed authenticate() is retried at once, without the sleep
AfterConnectFail_no_sleep(t) ==
    [pc |-> At0("top"), hist |-> hist \o <<Ev("fail", 0, t)>>]

\* Mutant: a failed authenticate() ends the loop
AfterConnectFail_give_up(t) ==
    [pc |-> At0("returned"), hist |-> hist \o <<Ev("fail", 0, t)>>]

\* Where a failed authenticate() leaves the loop: asyncio.sleep(5); continue
AfterConnectFail(t) ==
    [pc |-> At0("sleep"), hist |-> hist \o <<Ev("fail", 0, t), Ev("sleep", 0, t)>>]

\* start() up to the loop.  The invocations are interchangeable: they are
\* numbered in the order in which they are made.
Start(t) ==
    /\ SetupDone
    /\ pc[t] = At0("idle")
    /\ \A u \in Tasks : u < t => pc[u] # At0("idle")
    /\ IF AlreadyStarted
       THEN /\ pc' = [pc EXCEPT ![t] = At0("returned")]
            /\ UNCHANGED <<started, hist>>
       ELSE /\ started' = TRUE
            /\ pc' = [pc EXCEPT ![t] = At0("top")]
            /\ hist' = Append(hist, Ev("loop", 0, t))
    /\ UNCHANGED <<settings, renamed, ws_conn, sock_closed, nsock, connected, closed,
                   rsock, dpc, binary_sensors, switches, sent, adds, writes, now, slots,
                   counts, last, inflight, cmds>>

\* while not self.closed: ... up to the first suspension of the iteration
LoopTop(t) ==
    /\ pc[t] = At0("top")
    /\ IF closed
       THEN /\ pc' = [pc EXCEPT ![t] = At0("returned")]
            /\ UNCHANGED <<sent, hist>>
       ELSE IF NeedConnect
       THEN /\ Attempts < MaxAttempts
            /\ pc' = [pc EXCEPT ![t] = At0("connecting")]
            /\ UNCHANGED <<sent, hist>>
       ELSE \* on_connect_actions: the socket is open, LDI is sent
            /\ sent' = send_ws_command(Server, on_connect_actions[1].command,
                                       on_connect_actions[1].parameters).sent
            /\ hist' = Append(hist, Ev("on_connect", ws_conn[1], t))
            /\ pc' = [pc EXCEPT ![t] = AfterCommand(1)]
    /\ UNCHANGED <<settings, renamed, ws_conn, sock_closed, nsock, connected, started,
                   closed, rsock, dpc, binary_sensors, switches, adds, writes, now, slots,
                   counts, last, inflight, cmds>>

\* authenticate() returns True: a new socket, then on_connect_actions sends LDI
ConnectOk(t) ==
    /\ pc[t] = At0("connecting")
    /\ nsock < MaxSockets
    /\ nsock' = nsock + 1
    /\ ws_conn' = Some(nsock + 1)
    /\ connected' = TRUE
    /\ sent' = send_on(Server, Some(nsock + 1), on_connect_actions[1].command,
                       on_connect_actions[1].parameters).sent
    /\ hist' = hist \o <<Ev("ok", nsock + 1, t), Ev("on_connect", nsock + 1, t)>>
    /\ pc' = [pc EXCEPT ![t] = AfterCommand(1)]
    /\ UNCHANGED <<settings, renamed, sock_closed, started, closed, rsock, dpc,
                   binary_sensors, switches, adds, writes, now, slots, counts, last,
                   inflight, cmds>>

\* authenticate() returns False
ConnectFail(t) ==
    /\ pc[t] = At0("connecting")
    /\ pc' = [pc EXCEPT ![t] = AfterConnectFail(t).pc]
    /\ hist' = AfterConnectFail(t).hist
    /\ UNCHANGED <<settings, renamed, ws_conn, sock_closed, nsock, connected, started,
                   closed, rsock, dpc, binary_sensors, switches, sent, adds, writes, now,
                   slots, counts, last, inflight, cmds>>

\* asyncio.sleep(5) is over
SleepDone(t) ==
    /\ pc[t] = At0("sleep")
    /\ pc' = [pc EXCEPT ![t] = At0("top")]
    /\ UNCHANGED <<settings, renamed, ws_conn, sock_closed, nsock, connected, started,
                   closed, rsock, dpc, binary_sensors, switches, sent, adds, writes, now,
                   slots, counts, hist, last, inflight, cmds>>

\* The next send_ws_command of on_connect_actions
OnConnectStep(t) ==
    /\ pc[t].at = "on_connect"
    /\ sent' = send_ws_command(Server, on_connect_actions[pc[t].i].command,
                               on_connect_actions[pc[t].i].parameters).sent
    /\ pc' = [pc EXCEPT ![t] = AfterCommand(pc[t].i)]
    /\ UNCHANGED <<settings, renamed, ws_conn, sock_closed, nsock, connected, started,
                   closed, rsock, dpc, binary_sensors, switches, adds, writes, now, slots,
                   counts, hist, last, inflight, cmds>>

\* async for msg in self.ws_conn: iterating None raises TypeError, which the
\* except clause of the loop catches
IterStart(t) ==
    /\ pc[t] = At0("iter")
    /\ IF ws_conn = None
       THEN /\ connected' = FALSE
            /\ hist' = Append(hist, Ev("sleep", 0, t))
            /\ pc' = [pc EXCEPT ![t] = At0("sleep")]
            /\ UNCHANGED rsock
       ELSE /\ rsock' = ws_conn[1]
            /\ pc' = [pc EXCEPT ![t] = At0("recv")]
            /\ UNCHANGED <<connected, hist>>
    /\ UNCHANGED <<settings, renamed, ws_conn, sock_closed, nsock, started, closed, dpc,
                   binary_sensors, switches, sent, adds, writes, now, slots, counts, last,
                   inflight, cmds>>

\* Mutant: the loop does not wait for on_message
AwaitDispatch_detached == At0("recv")

\* await self.on_message(msg.data): the loop stays here until the call is over
AwaitDispatch == At0("dispatch")

\* Messages the receive loops have read so far
Reads == Cardinality({i \in 1..Len(hist) : hist[i].ev = "read"})

\* A BINARY message arrives: the iteration of the socket yields it
RecvBinary(t, message) ==
    /\ pc[t] = At0("recv")
    /\ ~sock_closed[rsock]
    /\ Reads < MaxLoopMsgs
    /\ inflight' = [inflight EXCEPT ![t] = Some(message)]
    /\ pc' = [pc EXCEPT ![t] = AwaitDispatch]
    /\ hist' = Append(hist, Ev("read", rsock, t))
    /\ UNCHANGED <<settings, renamed, ws_conn, sock_closed, nsock, connected, started,
                   closed, rsock, dpc, binary_sensors, switches, sent, adds, writes,
                   now, slots, counts, last, cmds>>

\* await self.on_message(msg.data) is over: the loop asks for the next message
DispatchDone(t) ==
    /\ pc[t] = AwaitDispatch
    /\ inflight[t] # None
    /\ Handle(inflight[t][1])
    /\ inflight' = [inflight EXCEPT ![t] = None]
    /\ pc' = [pc EXCEPT ![t] = At0("recv")]
    /\ hist' = Append(hist, Ev("done", rsock, t))
    /\ UNCHANGED <<settings, renamed, ws_conn, sock_closed, nsock, connected, started,
                   closed, rsock, dpc, now, slots, cmds>>

\* An ERROR message arrives (the socket is closed by then): break
RecvError(t) ==
    /\ pc[t] = At0("recv")
    /\ ~sock_closed[rsock]
    /\ sock_closed' = [sock_closed EXCEPT ![rsock] = TRUE]
    /\ pc' = [pc EXCEPT ![t] = At0("top")]
    /\ UNCHANGED <<settings, renamed, ws_conn, nsock, connected, started, closed, rsock,
                   dpc, binary_sensors, switches, sent, adds, writes, now, slots, counts,
                   hist, last, inflight, cmds>>

\* The iteration of the socket raises: the except clause of the loop clears
\* the connected flag and sleeps; the socket may or may not be closed by then
RecvRaises(t) ==
    /\ pc[t] = At0("recv")
    /\ ~sock_closed[rsock]
    /\ \E left_open \in BOOLEAN :
          sock_closed' = [sock_closed EXCEPT ![rsock] = ~left_open]
    /\ connected' = FALSE
    /\ hist' = Append(hist, Ev("sleep", 0, t))
    /\ pc' = [pc EXCEPT ![t] = At0("sleep")]
    /\ UNCHANGED <<settings, renamed, ws_conn, nsock, started, closed, rsock, dpc,
                   binary_sensors, switches, sent, adds, writes, now, slots, counts,
                   last, inflight, cmds>>

\* The hub closes the connection, or the socket was closed locally: the
\* iteration ends
RecvClose(t) ==
    /\ pc[t] = At0("recv")
    /\ sock_closed' = [sock_closed EXCEPT ![rsock] = TRUE]
    /\ pc' = [pc EXCEPT ![t] = At0("top")]
    /\ UNCHANGED <<settings, renamed, ws_conn, nsock, connected, started, closed, rsock,
                   dpc, binary_sensors, switches, sent, adds, writes, now, slots, counts,
                   hist, last, inflight, cmds>>

---------------------------------------------------------------------------
(* web_server.py: disconnect() and the switch commands *)

\* disconnect() up to the suspension in ws_conn.close(); closing a socket
\* that is already closed does not suspend
Disconnect ==
    /\ SetupDone
    /\ dpc = "idle"
    /\ closed' = TRUE
    /\ IF ws_conn = None
       THEN /\ dpc' = "done"
            /\ UNCHANGED <<ws_conn, sock_closed, connected>>
       ELSE IF sock_closed[ws_conn[1]]
       THEN /\ dpc' = "done"
            /\ ws_conn' = None
            /\ connected' = FALSE
            /\ UNCHANGED sock_closed
       ELSE /\ dpc' = "closing"
            /\ sock_closed' = [sock_closed EXCEPT ![ws_conn[1]] = TRUE]
            /\ UNCHANGED <<ws_conn, connected>>
    /\ UNCHANGED <<settings, renamed, nsock, started, pc, rsock, binary_sensors,
                   switches, sent, adds, writes, now, slots, counts, hist, last,
                   inflight, cmds>>

\* disconnect() after ws_conn.close() returned
DisconnectFinish ==
    /\ dpc = "closing"
    /\ ws_conn' = None
    /\ connected' = FALSE
    /\ dpc' = "done"
    /\ UNCHANGED <<settings, renamed, sock_closed, nsock, started, closed, pc, rsock,
                   binary_sensors, switches, sent, adds, writes, now, slots, counts,
                   hist, last, inflight, cmds>>

\* switch_turn_on ("11"), switch_turn_off ("12"), switch_toggle ("10")
SwitchOps == {n10, n11, n12}

\* What a caller of switch_turn_on / switch_turn_off / switch_toggle gets:
\* every path of the three methods and of send_ws_command ends without a
\* return statement and without raising
CommandOutcome(conn, conn_closed) == [ret |-> None, raised |-> FALSE]

SwitchMethods == {"switch_turn_on", "switch_turn_off", "switch_toggle"}

\* Mutant: turn_on sends the code of turn_off and turn_off that of turn_on
switch_op_swapped(method) ==
    IF method = "switch_turn_on" THEN n12
    ELSE IF method = "switch_turn_off" THEN n11
    ELSE n10

\* The second parameter of the EBI command of each method
switch_op(method) ==
    IF method = "switch_turn_on" THEN n11
    ELSE IF method = "switch_turn_off" THEN n12
    ELSE n10

\* switch_turn_on / switch_turn_off / switch_toggle (device_id)
SwitchCommand(device_id, method) ==
    /\ SetupDone
    /\ counts.cmd < MaxCmds
    /\ counts' = [counts EXCEPT !.cmd = @ + 1]
    /\ sent' = IF SocketOpen
               THEN send_ws_command(Server, sEBI, <<Str(device_id), switch_op(method)>>).sent
               ELSE sent
    /\ LET conn_closed == ws_conn # None /\ sock_closed[ws_conn[1]]
       IN  cmds' = Append(cmds, [method |-> method,
                                 device_id |-> device_id,
                                 frame |-> full_message(sEBI, <<Str(device_id),
                                                               switch_op(method)>>),
                                 conn |-> ws_conn,
                                 conn_closed |-> conn_closed,
                                 nsock |-> nsock,
                                 outcome |-> CommandOutcome(ws_conn, conn_closed)])
    /\ UNCHANGED <<settings, renamed, ws_conn, sock_closed, nsock, connected, started,
                   closed, pc, rsock, dpc, binary_sensors, switches, adds, writes, now,
                   slots, hist, last, inflight>>

Next ==
    \/ Setup
    \/ \E t \in Tasks : Start(t)
    \/ \E t \in Tasks : LoopTop(t)
    \/ \E t \in Tasks : ConnectOk(t)
    \/ \E t \in Tasks : ConnectFail(t)
    \/ \E t \in Tasks : SleepDone(t)
    \/ \E t \in Tasks : OnConnectStep(t)
    \/ \E t \in Tasks : IterStart(t)
    \/ \E t \in Tasks : \E message \in LoopBuffers : RecvBinary(t, message)
    \/ \E t \in Tasks : DispatchDone(t)
    \/ \E t \in Tasks : RecvError(t)
    \/ \E t \in Tasks : RecvClose(t)
    \/ Disconnect
    \/ DisconnectFinish

Spec == InitLoop /\ [][Next]_vars

\* The ways through the loop of start() that end the use of a socket: the hub
\* closes it, the iteration raises, or disconnect() is called.  The frames
\* read in between are left out: on_message() swallows what their dispatch
\* raises and touches neither the socket nor the flags read at line 125.
NextReconnect ==
    \/ Setup
    \/ \E t \in Tasks : Start(t)
    \/ \E t \in Tasks : LoopTop(t)
    \/ \E t \in Tasks : ConnectOk(t)
    \/ \E t \in Tasks : ConnectFail(t)
    \/ \E t \in Tasks : SleepDone(t)
    \/ \E t \in Tasks : OnConnectStep(t)
    \/ \E t \in Tasks : IterStart(t)
    \/ \E t \in Tasks : RecvError(t)
    \/ \E t \in Tasks : RecvClose(t)
    \/ \E t \in Tasks : RecvRaises(t)
    \/ Disconnect
    \/ DisconnectFinish

SpecReconnect == InitLoop /\ [][NextReconnect]_vars

\* authenticate() returns False, for a hub that accepts a connection in the end
HubRefuses(t) == Attempts + 1 < MaxAttempts /\ ConnectFail(t)

\* The steps of start() that the event loop runs once they are ready
LoopSteps ==
    \E t \in Tasks :
        \/ LoopTop(t)
        \/ ConnectOk(t)
        \/ HubRefuses(t)
        \/ SleepDone(t)
        \/ OnConnectStep(t)
        \/ IterStart(t)

\* The loop while disconnect() is never called and the socket stays open
NextRetry ==
    \/ Setup
    \/ \E t \in Tasks : Start(t)
    \/ \E t \in Tasks : LoopTop(t)
    \/ \E t \in Tasks : ConnectOk(t)
    \/ \E t \in Tasks : HubRefuses(t)
    \/ \E t \in Tasks : SleepDone(t)
    \/ \E t \in Tasks : OnConnectStep(t)
    \/ \E t \in Tasks : IterStart(t)
    \/ \E t \in Tasks : \E message \in LoopBuffers : RecvBinary(t, message)
    \/ \E t \in Tasks : DispatchDone(t)

SpecRetry == InitLoop /\ [][NextRetry]_vars /\ WF_vars(LoopSteps)

\* The loop with turn_on / turn_off / toggle calls made from other tasks, for
\* one configuration (lights only)
InitCommands ==
    /\ settings = [get_entity_names |-> FALSE, fetch_sensor_areas |-> FALSE,
                   fetch_sensors |-> FALSE, fetch_lights |-> TRUE]
    /\ renamed = {}
    /\ Constructed

NextCommands ==
    \/ Next /\ Len(hist') <= MaxEvents
    \/ \E device_id \in CmdIds : \E method \in SwitchMethods :
          SwitchCommand(device_id, method)

SpecCommands == InitCommands /\ [][NextCommands]_vars

---------------------------------------------------------------------------
(* Claims *)

\* The frames of every unit of at least 3 characters, in buffer order
RECURSIVE DecodeAll(_)
DecodeAll(messages) ==
    IF Len(messages) = 0 THEN <<>>
    ELSE IF Len(Head(messages)) < 3 THEN DecodeAll(Tail(messages))
    ELSE <<DecodeUnit(Head(messages))>> \o DecodeAll(Tail(messages))

\* C1: when the handling of one unit of a buffer fails, only that unit is
\* skipped: after on_message, manage_commands has been invoked for every unit
\* of at least 3 characters of the buffer, in buffer order.
C1_LaterUnitsDispatched == last.disp = DecodeAll(Split(last.buffer, EOT))

\* C2: manage_commands is total: no command, parameter sequence or record
\* list makes the dispatch raise.
C2_DispatchNeverRaises == ~last.exc

\* The outbound frame STX command [GS param]* ETX checksum EOT
RECURSIVE GsParams(_)
GsParams(params) == IF Len(params) = 0 THEN <<>>
                    ELSE <<GS>> \o Head(params) \o GsParams(Tail(params))

WireFrame(command, params) ==
    LET body == <<STX>> \o command \o GsParams(params) \o <<ETX>>
    IN  body \o build_crc(body) \o <<EOT>>

\* The on-connect sequence for the settings
ExpectedOnConnect ==
    <<WireFrame(sLDI, <<>>)>>
    \o (IF settings.fetch_lights THEN <<WireFrame(sGSF, <<n1>>)>> ELSE <<>>)
    \o (IF settings.fetch_sensor_areas
        THEN <<WireFrame(sGSF, <<n12>>), WireFrame(sWSF, <<n12>>)>>
        ELSE <<>>)
    \o <<WireFrame(sSU3, <<>>)>>

\* Frames that answer a ping or carry a switch command
IsReplyOrCommand(data) ==
    \/ data = WireFrame(sPONG, <<>>)
    \/ \E device_id \in CmdIds : \E op \in SwitchOps :
          data = WireFrame(sEBI, <<Str(device_id), op>>)

\* The frames sent on socket k other than PONG and EBI, in order
RECURSIVE ConnectFramesOn(_, _)
ConnectFramesOn(k, log) ==
    IF Len(log) = 0 THEN <<>>
    ELSE IF Head(log)[1] = k /\ ~IsReplyOrCommand(Head(log)[2])
    THEN <<Head(log)[2]>> \o ConnectFramesOn(k, Tail(log))
    ELSE ConnectFramesOn(k, Tail(log))

\* C3: when on_connect_actions has run to its end on a socket that is still
\* open, the frames it sent are exactly LDI, GSF 1 (lights), GSF 12 and WSF 12
\* (sensor areas), SU3, each with its parameters as single GS-separated fields.
C3_OnConnectSequence ==
    \A t \in Tasks :
        (pc[t] = At0("iter") /\ SocketOpen)
            => ConnectFramesOn(ws_conn[1], sent) = ExpectedOnConnect

Count(S) == Cardinality(S)

Occurrences(log, e) == Count({i \in 1..Len(log) : log[i] = e})

IsAttempt(e) == e.ev \in {"ok", "fail"}

\* hist[i] is a failed attempt and hist[j] the next attempt, which succeeds
FailThenOk(i, j) ==
    /\ i < j
    /\ hist[i].ev = "fail"
    /\ hist[j].ev = "ok"
    /\ \A k \in (i + 1)..(j - 1) : ~IsAttempt(hist[k])

\* C4: a failed connect attempt of the loop followed by a successful one:
\* exactly one 5-second sleep lies between the two, on_connect_actions runs
\* exactly once on the new socket and none of its frames is sent twice.
C4_FailThenOkConnectsOnce ==
    \A i, j \in 1..Len(hist) :
        FailThenOk(i, j) =>
            /\ Count({k \in i..j : hist[k].ev = "sleep"}) = 1
            /\ Count({k \in 1..Len(hist) : hist[k].ev = "on_connect"
                                           /\ hist[k].sock = hist[j].sock}) = 1
            /\ Occurrences(sent, <<hist[j].sock, WireFrame(sLDI, <<>>)>>) = 1
            /\ \A n \in 1..Len(ExpectedOnConnect) :
                  Occurrences(sent, <<hist[j].sock, ExpectedOnConnect[n]>>) <= 1

\* C4 witness: a failed attempt, the sleep, a successful attempt, and the
\* loop has reached the receive loop
C4_Witness ==
    /\ \E i, j \in 1..Len(hist) : FailThenOk(i, j)
    /\ \E t \in Tasks : pc[t] = At0("recv")

OnConnectRuns == Count({k \in 1..Len(hist) : hist[k].ev = "on_connect"})

\* C5: once disconnect() has returned, no connection is established, no
\* on-connect sequence is sent and no inbound buffer is handled.
C5_NothingAfterDisconnect ==
    [][dpc = "done" => /\ nsock' = nsock
                       /\ OnConnectRuns' = OnConnectRuns
                       /\ counts'.msg = counts.msg]_vars

\* C6: after the receive loop has ended on a lost connection the connected
\* flag is clear: while the loop is between connections (and no disconnect()
\* is in progress) and no open socket exists, is_connected() is false.
C6_ConnectedOnlyWhileOpen ==
    \A t \in Tasks :
        (pc[t].at \in {"top", "connecting", "sleep"} /\ dpc # "closing" /\ ~SocketOpen)
            => ~connected

Looped == {hist[i].task : i \in {k \in 1..Len(hist) : hist[k].ev = "loop"}}

\* C7: start() is idempotent: at most one invocation ever enters the
\* connect/receive loop, and an invocation made after that returns at once.
C7_OneLoop ==
    /\ Count(Looped) <= 1
    /\ Count({t \in Tasks : pc[t].at \notin {"idle", "returned"}}) <= 1

\* C7 witness: the loop of one invocation is receiving, a second invocation
\* has returned without entering the loop
C7_Witness ==
    \E t1, t2 \in Tasks :
        /\ pc[t1] = At0("recv")
        /\ pc[t2] = At0("returned")
        /\ t2 \notin Looped

\* This step handles `message`, and so did the previous on_message call
Repeated(message) ==
    /\ counts.msg >= 1
    /\ last.buffer = message
    /\ counts'.msg = counts.msg + 1
    /\ last'.buffer = message

\* C8: a second consecutive update with the identical status leaves the
\* revealed and cleared timestamps of every device as the first left them.
C8_SameStatusKeepsTimestamps ==
    [][(\E message \in {B_gsf12_on, B_gsf12_off, B_gsf1_on, B_gsf1_off} : Repeated(message))
         => \A u \in DOMAIN binary_sensors :
               /\ binary_sensors'[u]._last_revealed = binary_sensors[u]._last_revealed
               /\ binary_sensors'[u]._last_cleared = binary_sensors[u]._last_cleared]_vars

\* C9: a second consecutive UpdateSwitch(1, id, status) with the same status
\* emits no notification: no creation callback and no state write.
C9_SecondUpdateSilent ==
    [][(\E message \in {B_gsf1_on, B_gsf1_off} : Repeated(message))
         => (adds' = adds /\ writes' = writes)]_vars

\* The switch table after on_message(first) then on_message(second)
SwitchesAfter(first, second) ==
    on_message(on_message(Server, first).s, second).s.switches

\* C10: with lights enabled and the device not yet in the table, ldi seeding
\* then gsf status, and the reverse order, end with the same single switch
\* entry: same display name, same hub name, same on/off state and status.
C10_SwitchOrderIndependent ==
    LET uid == sw_set_sensor_uid(1, 7)
        a == SwitchesAfter(B_ldi_switch, B_gsf1_on)
        b == SwitchesAfter(B_gsf1_on, B_ldi_switch)
    IN  (SetupDone /\ settings.fetch_lights /\ uid \notin DOMAIN switches)
            => /\ DOMAIN a = DOMAIN b
               /\ a[uid]._name = b[uid]._name
               /\ a[uid]._ave_name = b[uid]._ave_name
               /\ a[uid]._attr_is_on = b[uid]._attr_is_on
               /\ a[uid]._is_on = b[uid]._is_on

\* The binary-sensor table after on_message(first) then on_message(second)
BinarySensorsAfter(first, second) ==
    on_message(on_message(Server, first).s, second).s.binary_sensors

\* The cached device as a consumer sees it: state, names, and which of the two
\* timestamps are present
DeviceView(e) ==
    [is_on |-> bs_is_on(e),
     name |-> e._name,
     ave_name |-> e._ave_name,
     revealed |-> e._last_revealed # None,
     cleared |-> e._last_cleared # None]

\* C11: with sensor areas enabled and the area not yet in the table, ldi
\* seeding then a gsf status (0 or 1), and the reverse order, end with the same
\* cached device: same state, same names, same timestamps present.
C11_BinarySensorOrderIndependent ==
    LET uid == bs_set_sensor_uid(12, 7)
    IN  (SetupDone /\ settings.fetch_sensor_areas /\ uid \notin DOMAIN binary_sensors)
            => \A status \in {B_gsf12_on, B_gsf12_off} :
                  LET a == BinarySensorsAfter(B_ldi_area, status)
                      b == BinarySensorsAfter(status, B_ldi_area)
                  IN  /\ DOMAIN a = DOMAIN b
                      /\ DeviceView(a[uid]) = DeviceView(b[uid])

\* Device ids the inbound buffers name
DeviceIds == {7}

\* Unique ids of the devices of a family, in either table
KeysOf(family) ==
    {bs_set_sensor_uid(family, id) : id \in DeviceIds}
        \cup {sw_set_sensor_uid(family, id) : id \in DeviceIds}

\* No entry of the family in a table, no creation and no state write for it
NoTrace(family) ==
    /\ \A u \in DOMAIN binary_sensors : binary_sensors[u].family # family
    /\ \A u \in DOMAIN switches : switches[u].family # family
    /\ \A i \in 1..Len(adds) : adds[i][2] \notin KeysOf(family)
    /\ \A i \in 1..Len(writes) : writes[i] \notin KeysOf(family)

\* The buffers whose family the settings switch off
GatedBuffers ==
    (IF settings.fetch_sensor_areas THEN {}
     ELSE {B_upd_xa, B_gsf12_on, B_gsf12_off, B_ldi_area})
    \cup (IF settings.fetch_sensors THEN {} ELSE {B_upd_xs})
    \cup (IF settings.fetch_lights THEN {}
          ELSE {B_upd_ws, B_gsf1_on, B_gsf1_off, B_ldi_switch})

\* C12: a family switched off in the settings never gets an entry, a creation
\* callback or a state write, whatever frames arrive, and a frame for it
\* is handled without an exception.
C12_SettingsGating ==
    /\ ~settings.fetch_sensor_areas => NoTrace(12)
    /\ ~settings.fetch_sensors => NoTrace(1007)
    /\ ~settings.fetch_lights => NoTrace(1)
    /\ (counts.msg >= 1 /\ last.buffer \in GatedBuffers) => ~last.exc

\* C12 witness: with every family switched off, two frames for switched-off
\* families have been handled, the last one an upd X A
C12_Witness ==
    /\ ~settings.fetch_sensor_areas /\ ~settings.fetch_sensors /\ ~settings.fetch_lights
    /\ counts.msg = 2
    /\ last.buffer = B_upd_xa

\* Each entry sits at the unique id of its own family and device id, so no
\* two entries of a table are for the same device
OneEntryPerDevice ==
    /\ \A u \in DOMAIN binary_sensors :
          u = bs_set_sensor_uid(binary_sensors[u].family, binary_sensors[u].ave_device_id)
    /\ \A u \in DOMAIN switches :
          u = sw_set_sensor_uid(switches[u].family, switches[u].ave_device_id)
    /\ \A u1, u2 \in DOMAIN binary_sensors :
          (binary_sensors[u1].family = binary_sensors[u2].family
           /\ binary_sensors[u1].ave_device_id = binary_sensors[u2].ave_device_id)
              => u1 = u2
    /\ \A u1, u2 \in DOMAIN switches :
          (switches[u1].family = switches[u2].family
           /\ switches[u1].ave_device_id = switches[u2].ave_device_id)
              => u1 = u2

\* C13: every step leaves at most one entry per (family, device_id) in each
\* table and removes no entry.
C13_OneEntryNeverRemoved ==
    [][/\ OneEntryPerDevice'
       /\ DOMAIN binary_sensors \subseteq DOMAIN binary_sensors'
       /\ DOMAIN switches \subseteq DOMAIN switches']_vars

\* C13 witness: a switch seeded by ldi (status -1) has been updated by a gsf
\* status
C13_Witness ==
    /\ /\ DOMAIN switches = {sw_set_sensor_uid(1, 7)}
       /\ switches[sw_set_sensor_uid(1, 7)]._is_on = Some(-1)
       /\ switches[sw_set_sensor_uid(1, 7)]._attr_is_on = Some(TRUE)
       /\ last.buffer = B_gsf1_on

\* Calls of a creation callback for the unique id
Creations(uid) == Count({i \in 1..Len(adds) : adds[i][2] = uid})

\* C14: the creation callback has been invoked exactly once for every entry
\* of a table, and for nothing else.
C14_CreatedOnce ==
    /\ \A u \in DOMAIN binary_sensors : Creations(u) = 1
    /\ \A u \in DOMAIN switches : Creations(u) = 1
    /\ Len(adds) = Count(DOMAIN binary_sensors) + Count(DOMAIN switches)

\* C14 witness: an area created by one frame has been updated by a later one
C14_Witness ==
    /\ bs_set_sensor_uid(12, 7) \in DOMAIN binary_sensors
    /\ binary_sensors[bs_set_sensor_uid(12, 7)]._last_revealed # None
    /\ counts.msg = 2

\* C15: a creation-callback slot that holds a callback keeps it in every step.
C15_FirstRegistrationWins ==
    [][/\ slots.add_bs # None => slots'.add_bs = slots.add_bs
       /\ slots.add_sw # None => slots'.add_sw = slots.add_sw]_vars

\* C15 witness: a registration call made after the setup left both slots as
\* the setup filled them
C15_Witness ==
    /\ counts.reg >= 1
    /\ slots.add_bs = Some("async_add_bs")
    /\ slots.add_sw = Some("async_add_sw")

\* The socket was absent or closed when the command was issued
Disconnected(c) == c.conn = None \/ c.conn_closed

\* C16: a turn_on / turn_off / toggle issued while the socket is absent or
\* closed reports a failure to its caller: it raises or returns a value.
C16_DisconnectedSendReportsFailure ==
    \A i \in 1..Len(cmds) :
        Disconnected(cmds[i]) => (cmds[i].outcome.raised \/ cmds[i].outcome.ret # None)

IsCommandFrame(data) == \E i \in 1..Len(cmds) : cmds[i].frame = data

Connected(c) == ~Disconnected(c)

Data(log) == [i \in 1..Len(log) |-> log[i][2]]

Frames(log) == [i \in 1..Len(log) |-> log[i].frame]

\* C17: the command frames handed to a socket are exactly those of the
\* commands issued while the socket was open, in order: a command issued while
\* disconnected is never transmitted, whatever connects and sends follow.
C17_DroppedNeverSent ==
    SelectSeq(Data(sent), IsCommandFrame) = Frames(SelectSeq(cmds, Connected))

\* C17 witness: a command was issued with no socket, and frames have been
\* sent on a connection made after it
C17_Witness ==
    /\ Len(cmds) >= 1
    /\ cmds[1].conn = None
    /\ \E i \in 1..Len(sent) : sent[i][1] > cmds[1].nsock

IsReadOrDone(e) == e.ev \in {"read", "done"}

ReadDone == SelectSeq(hist, IsReadOrDone)

\* C18: at most one inbound message is in dispatch at any time, and every
\* message a loop reads is handled to its end before the next one is read.
C18_SequentialDispatch ==
    /\ Count({t \in Tasks : inflight[t] # None}) <= 1
    /\ \A i \in 1..Len(ReadDone) :
          IF i % 2 = 1 THEN ReadDone[i].ev = "read"
          ELSE ReadDone[i].ev = "done" /\ ReadDone[i].task = ReadDone[i - 1].task

\* C18 witness: two pings were read and answered one after the other, and a
\* switch command was sent between the two answers
C18_Witness ==
    /\ Len(ReadDone) = 4
    /\ Len(cmds) = 1
    /\ \E i, j, k \in 1..Len(sent) :
          /\ i < j /\ j < k
          /\ sent[i][2] = full_message(sPONG, None)
          /\ sent[j][2] = cmds[1].frame
          /\ sent[k][2] = full_message(sPONG, None)

\* C19: decoding the text encoded for a command and its parameters gives
\* exactly one frame: that command, those parameters in order, no records.
C19_RoundTrip ==
    \A command \in EchoCommands : \A parameters \in EchoParameters :
        (counts.msg >= 1 /\ last.buffer = full_message(command, parameters))
            => last.disp = <<[command |-> command,
                              parameters |-> parameters,
                              records |-> <<>>]>>

\* Units of the buffer that are at least 3 characters long
LongUnits(buffer) ==
    LET long(msg) == Len(msg) >= 3
    IN  SelectSeq(Split(buffer, EOT), long)

\* C20: after on_message, exactly one frame has been dispatched for every
\* unit of at least 3 characters of the buffer, and none for a shorter unit.
C20_OneFramePerUnit ==
    counts.msg >= 1 => Len(last.disp) = Len(LongUnits(last.buffer))

\* Bitwise exclusive or of two bytes, bit by bit from bit k upwards
RECURSIVE XorFrom(_, _, _)
XorFrom(a, b, k) ==
    IF k > 7 THEN 0
    ELSE (2 ^ k) * ((((a \div (2 ^ k)) % 2) + ((b \div (2 ^ k)) % 2)) % 2)
         + XorFrom(a, b, k + 1)

RECURSIVE FoldXor(_)
FoldXor(str) == IF Len(str) = 0 THEN 0 ELSE XorFrom(Head(str), FoldXor(Tail(str)), 0)

\* One uppercase hexadecimal digit
HexDigit(n) == IF n < 10 THEN 48 + n ELSE 55 + n

\* High nibble, then low nibble, of 0xFF minus the xor of the code points
ExpectedChecksum(str) ==
    LET crc == 255 - FoldXor(str)
    IN  <<HexDigit(crc \div 16), HexDigit(crc % 16)>>

\* Strings of at most two characters over code points that reach every kind
\* of nibble: 0, below 10, 10 and above
CrcAlphabet == {0, 15, 16, 65, 240, 255}
CrcInputs == {<<>>} \cup {<<a>> : a \in CrcAlphabet}
                 \cup {<<a, b>> : a \in CrcAlphabet, b \in CrcAlphabet}

\* C21: for a string of code points 0..255 build_crc gives exactly two
\* uppercase hex digits, the high then the low nibble of 0xFF minus the xor of
\* the code points; so does the checksum of every frame send_ws_command built.
C21_ChecksumTwoHexDigits ==
    /\ \A str \in CrcInputs : build_crc(str) = ExpectedChecksum(str)
    /\ LET n == Len(last.buffer)
           body == SubSeq(last.buffer, 1, n - 3)
       IN  (counts.msg >= 1 /\ \A i \in 1..Len(body) : body[i] <= 255)
               => SubSeq(last.buffer, n - 2, n - 1) = ExpectedChecksum(body)

\* C21 witness: the frame EBI 7 11 was built, with the checksum "87"
C21_Witness ==
    /\ counts.msg >= 1
    /\ last.buffer = full_message(sEBI, <<n7, n11>>)
    /\ SubSeq(last.buffer, Len(last.buffer) - 2, Len(last.buffer) - 1) = <<56, 55>>

\* The single-unit buffer with its two checksum characters replaced
WithChecksum(buffer, pair) == SubSeq(buffer, 1, Len(buffer) - 3) \o pair \o <<EOT>>

\* The checksum build_crc gives for the unit of a single-unit buffer
TrueChecksum(buffer) == build_crc(SubSeq(buffer, 1, Len(buffer) - 3))

ChecksumProbes == {B_gsf1_on, B_ldi_area, B_upd_xs, B_ping}

\* C22: a unit is handled the same way whatever its two checksum characters
\* are (the true checksum, "ZZ" or "00"), and a unit with a wrong checksum is
\* dispatched like any other.
C22_ChecksumIgnored ==
    /\ (SetupDone /\ counts.msg <= 1)
          => \A buffer \in ChecksumProbes :
                \A pair \in {TrueChecksum(buffer), <<90, 90>>} :
                    on_message(Server, WithChecksum(buffer, pair))
                        = on_message(Server, buffer)
    /\ (counts.msg >= 1 /\ last.buffer = B_gsf1_on /\ settings.fetch_lights)
          => /\ Len(last.disp) = 1
             /\ sw_set_sensor_uid(1, 7) \in DOMAIN switches

\* C22 witness: the gsf unit with the checksum "00", which is not its true
\* checksum, has created the switch
C22_Witness ==
    /\ counts.msg >= 1
    /\ last.buffer = B_gsf1_on
    /\ TrueChecksum(B_gsf1_on) # <<48, 48>>
    /\ sw_set_sensor_uid(1, 7) \in DOMAIN switches

\* C23: a device first seen through an ldi record is seeded with status
\* unknown: after the ldi frame alone its cached state is neither on nor off
\* (is_on of the binary sensor is None, _attr_is_on of the switch is None).
C23_LdiSeedsUnknown ==
    LET bs_uid == bs_set_sensor_uid(12, 7)
        sw_uid == sw_set_sensor_uid(1, 7)
    IN  (counts.msg = 1 /\ ~last.exc)
            => /\ (last.buffer = B_ldi_area /\ bs_uid \in DOMAIN binary_sensors)
                     => bs_is_on(binary_sensors[bs_uid]) = None
               /\ (last.buffer = B_ldi_switch /\ sw_uid \in DOMAIN switches)
                     => switches[sw_uid]._attr_is_on = None

\* Between a failed attempt and the next attempt lies exactly one sleep
FlatRetry ==
    \A i, j \in 1..Len(hist) :
        (/\ i < j
         /\ hist[i].ev = "fail"
         /\ IsAttempt(hist[j])
         /\ \A k \in (i + 1)..(j - 1) : ~IsAttempt(hist[k]))
            => Count({k \in i..j : hist[k].ev = "sleep"}) = 1

\* The frames of on_connect_actions, as send_ws_command builds them
OnConnectFrames ==
    [n \in 1..Len(on_connect_actions) |->
        full_message(on_connect_actions[n].command, on_connect_actions[n].parameters)]

\* The session is connected and has sent the whole on-connect sequence
OnConnectDone ==
    /\ connected
    /\ ws_conn # None
    /\ ConnectFramesOn(ws_conn[1], sent) = OnConnectFrames

Fails == Count({i \in 1..Len(hist) : hist[i].ev = "fail"})

\* C24: while disconnect() is not called, a failed connect attempt is
\* followed by one sleep and another attempt, however many attempts failed
\* before; with a hub that accepts in the end, the started loop eventually
\* is connected and has sent the on-connect sequence.
C24_RetryUntilConnected ==
    /\ []FlatRetry
    /\ started ~> OnConnectDone
    /\ \A n \in 1..MaxAttempts : (Fails = n) ~> (Attempts > n)

\* C24 witness: all attempts but the last failed, the last one connected and
\* the on-connect sequence is out
C24_Witness ==
    /\ Fails = MaxAttempts - 1
    /\ Fails >= 2
    /\ OnConnectDone

\* The EBI frame of a method for device 7: STX EBI GS 7 GS code ETX checksum EOT
EbiFrame7(method) ==
    LET code == IF method = "switch_turn_on" THEN <<49, 49>>
                ELSE IF method = "switch_turn_off" THEN <<49, 50>>
                ELSE <<49, 48>>
        body == <<2, 69, 66, 73, 29, 55, 29>> \o code \o <<3>>
    IN  body \o ExpectedChecksum(body) \o <<4>>

\* This step is a call of `method` for device 7 made while the socket is open
IssuedConnected(method) ==
    /\ Len(cmds') = Len(cmds) + 1
    /\ cmds'[Len(cmds')].method = method
    /\ cmds'[Len(cmds')].device_id = 7
    /\ Connected(cmds'[Len(cmds')])

Delivered(buffer) == counts'.msg = counts.msg + 1 /\ last'.buffer = buffer

NoCacheChange == switches' = switches /\ binary_sensors' = binary_sensors

C27_AreaAndSensorUpdates ==
    [][/\ \A c \in {<<B_upd_xa, 1>>, <<B_upd_xa_clear, 0>>} :
             (Delivered(c[1]) /\ settings.fetch_sensor_areas)
                 => /\ binary_sensors'
                         = update_binary_sensor(Server, 12, 7, c[2], None).s.binary_sensors
                    /\ bs_is_on(binary_sensors'[bs_set_sensor_uid(12, 7)]) = Some(c[2] > 0)
                    /\ switches' = switches
       /\ \A c \in {<<B_upd_xs, 1>>, <<B_upd_xs_off, 0>>} :
             (Delivered(c[1]) /\ settings.fetch_sensors)
                 => /\ binary_sensors'
                         = update_binary_sensor(Server, 1007, 7, c[2], None).s.binary_sensors
                    /\ bs_is_on(binary_sensors'[bs_set_sensor_uid(1007, 7)]) = Some(c[2] > 0)
                    /\ switches' = switches]_vars

\* C27 witness: the area was triggered and then cleared by an upd X A frame
\* with the clear flag set
C27_Witness ==
    /\ counts.msg = 2
    /\ last.buffer = B_upd_xa_clear
    /\ bs_set_sensor_uid(12, 7) \in DOMAIN binary_sensors
    /\ bs_is_on(binary_sensors[bs_set_sensor_uid(12, 7)]) = Some(FALSE)
    /\ binary_sensors[bs_set_sensor_uid(12, 7)]._last_cleared # None

\* STX PONG ETX checksum EOT: the PONG frame without parameters
PongText ==
    <<2, 80, 79, 78, 71, 3>> \o ExpectedChecksum(<<2, 80, 79, 78, 71, 3>>) \o <<4>>

\* C28: a ping handled while the socket is open is answered within its own
\* dispatch, hence before the next inbound message is dispatched, with exactly
\* one PONG frame without parameters; it changes no cache entry and invokes
\* no subscriber.
C28_PingAnswered ==
    [][(Delivered(B_ping) /\ ws_conn # None /\ ~sock_closed[ws_conn[1]])
          => /\ sent' = Append(sent, <<ws_conn[1], PongText>>)
             /\ NoCacheChange
             /\ adds' = adds
             /\ writes' = writes]_vars

\* C28 witness: a ping was answered on the open socket while the switch
\* table holds an entry
C28_Witness ==
    /\ counts.msg >= 2
    /\ last.buffer = B_ping
    /\ ws_conn # None
    /\ Len(sent) >= 1
    /\ sent[Len(sent)] = <<ws_conn[1], <<2, 80, 79, 78, 71, 3, 69, 56, 4>> >>
    /\ switches # <<>>

\* C29: pong, ack, nack, cld, net and unknown commands, the upd sub-commands
\* X U, WT, TT, TP, TR, TLO, D, GUI and unknown ones, and ldi records of
\* device type 11, 4, 6, 8 or an unknown type change no entry of either
\* table, invoke no subscriber and send no frame.
C29_InertFrames ==
    [][\A buffer \in InertBuffers :
          Delivered(buffer)
              => /\ NoCacheChange
                 /\ adds' = adds
                 /\ writes' = writes
                 /\ sent' = sent]_vars

\* C29 witness: every unit of each inert buffer can be dispatched without an
\* exception, here with an open socket and both tables filled
C29_Witness ==
    /\ \E c \in InertCases :
          last.buffer = c[1] /\ Len(last.disp) = c[2] /\ ~last.exc
    /\ \A c \in InertCases :
          LET r == on_message(Server, c[1])
          IN  Len(r.s.disp) = c[2] /\ ~r.exc
    /\ ws_conn # None
    /\ switches # <<>>
    /\ counts.msg = 2

\* The entry shows the name built locally from its family and id
ShowsBuiltName(e, build_name(_, _)) == e._name = build_name(e.family, e.ave_device_id)

C31_FamiliesOfEntries ==
    /\ [](/\ \A u \in DOMAIN binary_sensors : binary_sensors[u].family \in {12, 1007}
          /\ \A u \in DOMAIN switches : switches[u].family = 1)
    /\ [][Delivered(B_gsf7_on)
            => (NoCacheChange /\ adds' = adds /\ writes' = writes)]_vars

\* C31 witness: with sensor areas enabled the area 7 is cached, and the gsf
\* reply for family 7 was dispatched after it without an exception
C31_Witness ==
    /\ counts.msg = 2
    /\ last.buffer = B_gsf7_on
    /\ Len(last.disp) = 1
    /\ ~last.exc
    /\ settings.fetch_sensor_areas
    /\ DOMAIN binary_sensors = {bs_set_sensor_uid(12, 7)}

\* STX LDI ETX checksum EOT, the first frame of the on-connect sequence
LdiText == <<2, 76, 68, 73, 3, 66, 70, 4>>

\* hist[i] and hist[j] are two runs of on_connect_actions, in this order
TwoRuns(i, j) == i < j /\ hist[i].ev = "on_connect" /\ hist[j].ev = "on_connect"

\* C32: on_connect_actions runs at most once on any one socket: between two
\* of its runs a new connection was established, the later run is on that
\* connection, and no socket is sent the LDI frame twice.
C32_OnConnectOncePerSocket ==
    /\ \A j \in 1..Len(hist) :
          hist[j].ev = "on_connect" =>
              \A i \in 1..(j - 1) :
                  TwoRuns(i, j) =>
                      /\ hist[i].sock # hist[j].sock
                      /\ \E m \in (i + 1)..(j - 1) :
                            hist[m].ev = "ok" /\ hist[m].sock = hist[j].sock
    /\ \A k \in 1..nsock : Occurrences(sent, <<k, LdiText>>) <= 1

\* C32 witness: the receive loop on the first connection has ended with an
\* exception that left the socket open, and the sequence was sent a second
\* time, on the second connection
C32_Witness ==
    /\ OnConnectRuns = 2
    /\ ~sock_closed[1]
    /\ ws_conn = Some(2)
    /\ Occurrences(sent, <<1, LdiText>>) = 1
    /\ Occurrences(sent, <<2, LdiText>>) = 1
    /\ \E t \in Tasks : pc[t] = At0("recv")

====
